---- MODULE Spec2Model ----
(***************************************************************************)
(* Model of run_migration.py: one invocation of the script checks that the *)
(* hardcoded migration file exists, reads it in text mode, prints a        *)
(* preview and manual instructions, returns the text to __main__, which    *)
(* prints a final line and lets the interpreter exit.  The script holds    *)
(* connection details but never uses them.  Invocations may be repeated.   *)
(***************************************************************************)
EXTENDS Integers, Sequences, FiniteSets, TLC

\* ---------------------------------------------------------------- bounds
MaxRuns == 2      \* completed invocations of the script that are followed
MaxShort == 3     \* short files: 0..MaxShort raw characters
MaxOver == 2      \* long files: up to PreviewLen + MaxOver raw characters
PatLen == 2       \* file contents repeat a pattern of PatLen characters

\* ------------------------------------------------------ program constants
PreviewLen == 500 \* sql[:500]
RuleWidth == 80   \* "=" * 80

\* ------------------------------------------------------------ characters
CR == "CR"
LF == "LF"
Alphabet == {"a", CR, LF}

Min(a, b) == IF a <= b THEN a ELSE b

Patterns == [1..PatLen -> Alphabet]

RawLengths == (0..MaxShort) \cup ((PreviewLen - 1)..(PreviewLen + MaxOver))

\* the contents the migration file may have on disk at an invocation
FileContents ==
  { [i \in 1..n |-> p[((i - 1) % PatLen) + 1]] : n \in RawLengths, p \in Patterns }

\* open(migration_file, 'r').read(): text mode with universal newlines,
\* "\r\n" and a lone "\r" both come back as "\n"
NotLfAfterCr(p) == ~(p[1] = LF /\ p[2] = CR)

TextRead(raw) ==
  LET withPrev == [i \in 1..Len(raw) |->
                     <<raw[i], IF i > 1 THEN raw[i - 1] ELSE "">>]
      kept == SelectSeq(withPrev, NotLfAfterCr)
  IN [k \in 1..Len(kept) |-> IF kept[k][1] = CR THEN LF ELSE kept[k][1]]

\* s[:n]
Slice(s, n) == SubSeq(s, 1, Min(n, Len(s)))

\* the argument of print(sql[:500] + "...\n")
PreviewText(s) == Slice(s, PreviewLen) \o <<".", ".", ".", LF>>

Line(tag, text, n) == [tag |-> tag, text |-> text, n |-> n]

Unset == [set |-> FALSE, val |-> <<>>]
Value(v) == [set |-> TRUE, val |-> v]

VARIABLES
  pc,          \* position of the current invocation
  fileExists,  \* whether the migration file is on disk at this invocation
  fileRaw,     \* its content on disk
  sql,         \* local variable sql of run_migration
  ret,         \* variable sql of __main__ (the value run_migration returned)
  stdout,      \* what this invocation has printed
  exitStatus,  \* -1 while running, else the process exit status
  reads,       \* number of times this invocation has opened the file
  dbExecuted,  \* SQL texts the script has sent to the database, all runs
  exits        \* exit statuses of the earlier invocations, in order

vars == <<pc, fileExists, fileRaw, sql, ret, stdout, exitStatus, reads,
          dbExecuted, exits>>

Init ==
  /\ pc = "idle"
  /\ fileExists = FALSE
  /\ fileRaw = <<>>
  /\ sql = Unset
  /\ ret = Unset
  /\ stdout = <<>>
  /\ exitStatus = -1
  /\ reads = 0
  /\ dbExecuted = <<>>
  /\ exits = <<>>

\* the script is started: if __name__ == "__main__": run_migration()
Start ==
  /\ pc = "idle"
  /\ \E e \in BOOLEAN, raw \in FileContents :
       /\ fileExists' = e
       /\ fileRaw' = IF e THEN raw ELSE <<>>
  /\ pc' = "check"
  /\ UNCHANGED <<sql, ret, stdout, exitStatus, reads, dbExecuted, exits>>

\* variant: the missing file is reported but the exit carries no status
\* (sys.exit() instead of sys.exit(1))
CheckMissingExitZero ==
  /\ pc = "check"
  /\ ~fileExists
  /\ stdout' = Append(stdout, Line("not_found", <<>>, 0))
  /\ exitStatus' = 0
  /\ pc' = "exited"
  /\ UNCHANGED <<fileExists, fileRaw, sql, ret, reads, dbExecuted, exits>>

\* if not os.path.exists(...): print(...); sys.exit(1)
CheckMissing ==
  /\ pc = "check"
  /\ ~fileExists
  /\ stdout' = Append(stdout, Line("not_found", <<>>, 0))
  /\ exitStatus' = 1
  /\ pc' = "exited"
  /\ UNCHANGED <<fileExists, fileRaw, sql, ret, reads, dbExecuted, exits>>

CheckFound ==
  /\ pc = "check"
  /\ fileExists
  /\ pc' = "read"
  /\ UNCHANGED <<fileExists, fileRaw, sql, ret, stdout, exitStatus, reads,
                 dbExecuted, exits>>

\* with open(migration_file, 'r') as f: sql = f.read()
ReadFile ==
  /\ pc = "read"
  /\ reads' = reads + 1
  /\ sql' = Value(TextRead(fileRaw))
  /\ pc' = "display"
  /\ UNCHANGED <<fileExists, fileRaw, ret, stdout, exitStatus, dbExecuted, exits>>

\* open()/read() raises (file removed since the check, a directory, no
\* permission, undecodable bytes): nothing catches it, the interpreter
\* prints a traceback on stderr and exits with status 1
ReadRaises ==
  /\ pc = "read"
  /\ reads' = reads + 1
  /\ exitStatus' = 1
  /\ pc' = "exited"
  /\ UNCHANGED <<fileExists, fileRaw, sql, ret, stdout, dbExecuted, exits>>

DisplayLines(text) ==
  << Line("loaded", <<>>, Len(text)),
     Line("preview_header", <<>>, 0),
     Line("rule", [i \in 1..RuleWidth |-> "="], RuleWidth),
     Line("preview", PreviewText(text), 0),
     Line("options", <<>>, 0),
     Line("option", <<>>, 1),
     Line("option", <<>>, 2),
     Line("option", <<>>, 3) >>

\* variant: the script does what its docstring says and sends the SQL to
\* the database after displaying it
DisplayAndExecute ==
  /\ pc = "display"
  /\ stdout' = stdout \o DisplayLines(sql.val)
  /\ dbExecuted' = Append(dbExecuted, sql.val)
  /\ pc' = "return"
  /\ UNCHANGED <<fileExists, fileRaw, sql, ret, exitStatus, reads, exits>>

\* the prints of run_migration, nothing else
Display ==
  /\ pc = "display"
  /\ stdout' = stdout \o DisplayLines(sql.val)
  /\ pc' = "return"
  /\ UNCHANGED <<fileExists, fileRaw, sql, ret, exitStatus, reads, dbExecuted, exits>>

\* variant: the function hands back what it previewed (return sql[:500])
ReturnPreview ==
  /\ pc = "return"
  /\ ret' = Value(Slice(sql.val, PreviewLen))
  /\ pc' = "main"
  /\ UNCHANGED <<fileExists, fileRaw, sql, stdout, exitStatus, reads, dbExecuted, exits>>

\* return sql  /  sql = run_migration()
Return ==
  /\ pc = "return"
  /\ ret' = sql
  /\ pc' = "main"
  /\ UNCHANGED <<fileExists, fileRaw, sql, stdout, exitStatus, reads, dbExecuted, exits>>

\* print("... Migration file is ready to execute"), then end of script
MainPrint ==
  /\ pc = "main"
  /\ stdout' = Append(stdout, Line("ready", <<>>, 0))
  /\ exitStatus' = 0
  /\ pc' = "exited"
  /\ UNCHANGED <<fileExists, fileRaw, sql, ret, reads, dbExecuted, exits>>

\* the process is gone; the script may be invoked again with a fresh
\* interpreter (locals, stdout and status are per process)
Rerun ==
  /\ pc = "exited"
  /\ Len(exits) < MaxRuns
  /\ exits' = Append(exits, exitStatus)
  /\ pc' = "idle"
  /\ fileExists' = FALSE
  /\ fileRaw' = <<>>
  /\ sql' = Unset
  /\ ret' = Unset
  /\ stdout' = <<>>
  /\ exitStatus' = -1
  /\ reads' = 0
  /\ UNCHANGED dbExecuted

Next ==
  \/ Start
  \/ CheckMissing
  \/ CheckFound
  \/ ReadFile
  \/ ReadRaises
  \/ Display
  \/ Return
  \/ MainPrint
  \/ Rerun

Spec == Init /\ [][Next]_vars

TypeOK ==
  /\ pc \in {"idle", "check", "read", "display", "return", "main", "exited"}
  /\ fileExists \in BOOLEAN
  /\ exitStatus \in {-1, 0, 1}
  /\ reads \in 0..1
  /\ Len(exits) <= MaxRuns

\* ---------------------------------------------------------------- claims

Succeeded == pc = "exited" /\ exitStatus = 0

PreviewLines == { i \in 1..Len(stdout) : stdout[i].tag = "preview" }

\* the preview without the "...\n" the script appends to it
PreviewBody(i) == SubSeq(stdout[i].text, 1, Len(stdout[i].text) - 4)

IsPrefixOf(s, t) == Len(s) <= Len(t) /\ \A k \in 1..Len(s) : s[k] = t[k]

C6_ExitStatus ==
  pc = "exited" =>
    /\ exitStatus \in {0, 1}
    /\ exitStatus = 0 =>
         /\ fileExists
         /\ sql.set
         /\ ret.set
         /\ stdout[Len(stdout)].tag = "ready"
    /\ ~fileExists =>
         /\ exitStatus = 1
         /\ reads = 0
         /\ ~sql.set
         /\ ~ret.set
         /\ stdout = << Line("not_found", <<>>, 0) >>
         /\ dbExecuted = <<>>

\* a run found the file missing and exited 1, after an earlier run exited 0
C6_Witness ==
  /\ pc = "exited"
  /\ ~fileExists
  /\ exitStatus = 1
  /\ Len(exits) >= 1
  /\ exits[1] = 0

====
